---- MODULE Spec2Model ----
(***************************************************************************)
(* A model of packages/core/src/index.ts: the signal / computed / effect   *)
(* dependency graph, its doubly linked dependency nodes, the batch         *)
(* scheduler and the evaluation context.                                   *)
(*                                                                         *)
(* The program is single-threaded and re-entrant.  Every public operation  *)
(* (a write, a read, a peek, effect(), a disposer, entering and leaving    *)
(* batch()) is one action; the code it runs, nested calls included, is     *)
(* translated into operators that take the machine state m (a record of    *)
(* all heap fields and module-level variables) and return the machine      *)
(* state after the call, with the return value in m.ret and a thrown       *)
(* error in m.exc.                                                         *)
(***************************************************************************)
EXTENDS Integers, Sequences, FiniteSets, TLC

(***************************************************************************)
(* Bounds of the model.                                                    *)
(***************************************************************************)
\* how many Node records one target may hold for the same signal
MaxDup == 2
\* the while loop of endBatch is followed for 2^DrainDepth iterations
DrainDepth == 7
\* top-level writes are enabled while globalVersion is below this
MaxWrites == 2

(***************************************************************************)
(* Program constants.                                                      *)
(***************************************************************************)
RUNNING == 1
STALE == 2
NOTIFIED == 4
HAS_ERROR == 8
SHOULD_SUBSCRIBE == 16
\* the drain-iteration limit of the write guard
MaxBatchIteration == 100

\* `undefined` as a Node reference
NoNode == <<>>
\* `undefined` as a value (a Computed's _value before its first evaluation)
Undefined == -9
\* `undefined` as a reference to a Signal, Computed or Effect
NoObj == "undefined"

\* m.exc when nothing is thrown
NoExc == 0
\* the Error thrown by cycleDetected()
CycleError == 90
\* the error a compute function throws
FormulaError == 91
\* the error an effect callback throws
EffectError == 92
\* a loop over a cyclic linked list: the call never returns
Hang == 98
\* a bound of the model is exhausted (MaxDup, DrainDepth)
ArenaFull == 99

(***************************************************************************)
(* The objects of the program under test: three signals, two computeds,    *)
(* two effects.  What the computeds compute and the effects do is given    *)
(* by the programs below.                                                  *)
(***************************************************************************)
Sources == {"a", "b", "c"}
Computeds == {"x", "y"}
Effects == {"e", "f"}
Signals == Sources \cup Computeds
Targets == Computeds \cup Effects
Objects == Signals \cup Effects
Vals == {-1, 0, 1}
\* a Node record is named by its signal, its target and a serial number
EdgeIds == Signals \X Targets \X (1..MaxDup)

VARIABLES
  prog,            \* which program (compute functions, effect callbacks) runs
  evalContext,     \* let evalContext
  batchedEffect,   \* let batchedEffect
  batchDepth,      \* let batchDepth
  batchIteration,  \* let batchIteration
  globalVersion,   \* let globalVersion
  edge,            \* the live Node records, by id
  _value,          \* Signal._value
  _version,        \* Signal._version
  _node,           \* Signal._node
  _targets,        \* Signal._targets
  _sources,        \* Computed._sources, Effect._sources
  _globalVersion,  \* Computed._globalVersion
  _flags,          \* Computed._flags, Effect._flags (a set of flag bits)
  _nextEffect,     \* Effect._nextEffect
  created,         \* effects for which effect() has been called
  disposers,       \* effects whose effect() call returned a disposer
  batchStack,      \* one entry per active batch() call: did it call startBatch
  hung,            \* an operation entered a loop that never ends
  changes,         \* how often the cached value or error state of a computed
                   \* has changed
  disposed,        \* effects whose disposer has been called
  pending,         \* disposed effects that were in the queue when disposed
                   \* and have not run since
  late,            \* disposed effects that ran other than that one time
  owed,            \* effects whose last run read a signal written since
  hist             \* observations of the last operation

vars == <<prog, evalContext, batchedEffect, batchDepth, batchIteration,
          globalVersion, edge, _value, _version, _node, _targets, _sources,
          _globalVersion, _flags, _nextEffect, created, disposers,
          batchStack, hung, changes, disposed, pending, late, owed, hist>>

(***************************************************************************)
(* Compute functions and effect callbacks are user code.  They are given   *)
(* as data and interpreted by Eval and Exec below.                         *)
(*   expressions:  <<"const", v>>        v                                 *)
(*                 <<"read", n>>         n.value                           *)
(*                 <<"peek", n>>         n.peek()                          *)
(*                 <<"add", e1, e2>>     e1 + e2 (wrapped into Vals)       *)
(*                 <<"ifpos", c, t, f>>  c > 0 ? t : f                     *)
(*                 <<"throwneg", e1>>    e1 < 0 ? throw : e1               *)
(*   statements:   <<"log", e1>>         evaluate e1 and use the value     *)
(*                 <<"set", s, e1>>      s.value = e1                      *)
(*                 <<"setif", c, s, e1>> if (c > 0) s.value = e1           *)
(*                 <<"throw">>           throw                             *)
(*                 <<"throwif", c>>      if (c > 0) throw                  *)
(***************************************************************************)
Wrap(v) == ((v + 1) % 3) - 1

\* c = a + b read by an effect; a diamond a -> x -> y, a -> y
ProgSum ==
  [ compute |-> [x |-> <<"add", <<"read", "a">>, <<"read", "b">>>>,
                 y |-> <<"add", <<"read", "x">>, <<"read", "a">>>>],
    callback |-> [e |-> << <<"log", <<"read", "y">>>> >>,
                  f |-> << <<"log", <<"add", <<"read", "x">>, <<"read", "b">>>>>> >>],
    init |-> [a |-> 1, b |-> 0, c |-> 0],
    writes |-> {<<"a", 0>>, <<"b", 1>>},
    computeds |-> {"x", "y"}, effects |-> {"e", "f"} ]

\* m = a > 0 ? b : c, which throws when negative; y = x > 0 ? 0 : 0 repeats
\* its value whatever x is
ProgBranch ==
  [ compute |-> [x |-> <<"throwneg", <<"ifpos", <<"read", "a">>,
                                               <<"read", "b">>, <<"read", "c">>>>>>,
                 y |-> <<"ifpos", <<"read", "x">>, <<"const", 0>>, <<"const", 0>>>>],
    callback |-> [e |-> << <<"log", <<"read", "y">>>> >>,
                  f |-> << <<"log", <<"read", "x">>>> >>],
    init |-> [a |-> 1, b |-> 0, c |-> -1],
    writes |-> {<<"a", 0>>, <<"b", -1>>, <<"b", 1>>, <<"c", 0>>},
    computeds |-> {"x", "y"}, effects |-> {"e"} ]

\* an effect that writes a signal another effect reads through a computed
\* that throws
ProgCascade ==
  [ compute |-> [x |-> <<"throwneg", <<"read", "b">>>>,
                 y |-> <<"const", 0>>],
    callback |-> [e |-> << <<"set", "b", <<"read", "a">>>> >>,
                  f |-> << <<"log", <<"read", "x">>>> >>],
    init |-> [a |-> -1, b |-> 0, c |-> 0],
    writes |-> {<<"a", 0>>, <<"a", 1>>, <<"b", 1>>},
    computeds |-> {"x"}, effects |-> {"e", "f"} ]

\* an effect whose first tracked read depends on a peek
ProgPeek ==
  [ compute |-> [x |-> <<"const", 0>>,
                 y |-> <<"const", 0>>],
    callback |-> [e |-> << <<"log", <<"ifpos", <<"peek", "c">>,
                                      <<"add", <<"read", "b">>, <<"read", "a">>>>,
                                      <<"read", "a">>>>>> >>,
                  f |-> << <<"log", <<"read", "b">>>> >>],
    init |-> [a |-> 0, b |-> 0, c |-> 0],
    writes |-> {<<"a", 1>>, <<"b", 1>>, <<"c", 1>>},
    computeds |-> {}, effects |-> {"e", "f"} ]

\* an effect that writes a signal it reads
ProgFeedback ==
  [ compute |-> [x |-> <<"read", "b">>,
                 y |-> <<"const", 0>>],
    callback |-> [e |-> << <<"setif", <<"read", "b">>, "a",
                             <<"add", <<"read", "a">>, <<"const", 1>>>>>> >>,
                  f |-> << <<"log", <<"read", "b">>>> >>],
    init |-> [a |-> 0, b |-> 0, c |-> 0],
    writes |-> {<<"b", 1>>},
    computeds |-> {"x"}, effects |-> {"e"} ]

\* two computeds that read each other while b > 0: x reads y, y peeks x
ProgCycle ==
  [ compute |-> [x |-> <<"add", <<"read", "y">>, <<"read", "a">>>>,
                 y |-> <<"ifpos", <<"read", "b">>, <<"peek", "x">>,
                                  <<"const", 0>>>>],
    callback |-> [e |-> << <<"log", <<"read", "x">>>> >>,
                  f |-> << <<"log", <<"read", "y">>>> >>],
    init |-> [a |-> 0, b |-> 1, c |-> 0],
    writes |-> {<<"a", 1>>, <<"b", 0>>, <<"b", 1>>},
    computeds |-> {"x", "y"}, effects |-> {"e"} ]

\* two effects that throw different errors: e writes what f reads and
\* throws the error of x while a < 0, f throws its own while c > 0
ProgDrain ==
  [ compute |-> [x |-> <<"throwneg", <<"read", "a">>>>,
                 y |-> <<"const", 0>>],
    callback |-> [e |-> << <<"set", "c", <<"read", "b">>>>,
                           <<"log", <<"read", "x">>>> >>,
                  f |-> << <<"log", <<"read", "c">>>>,
                           <<"throwif", <<"read", "c">>>> >>],
    init |-> [a |-> -1, b |-> 0, c |-> 0],
    writes |-> {<<"a", 0>>, <<"b", 1>>, <<"c", 1>>},
    computeds |-> {"x"}, effects |-> {"e", "f"} ]

Programs ==
  <<ProgSum, ProgBranch, ProgCascade, ProgPeek, ProgFeedback, ProgCycle,
    ProgDrain>>
\* the programs without an effect that feeds itself
Terminating == {1, 2, 3, 4}
Feeding == {5}
Cyclic == {6}
Throwing == {7}

Compute(p, d) == Programs[p].compute[d]
\* some effect callback of program p writes a signal
EffectsWrite(p) ==
  \E ef \in Programs[p].effects :
    \E i \in DOMAIN Programs[p].callback[ef] :
      Programs[p].callback[ef][i][1] \in {"set", "setif"}
Callback(p, ef) == Programs[p].callback[ef]

(***************************************************************************)
(* What a compute function yields on given signal values: the reference    *)
(* the cached values are compared with.  A value in Vals, or the error     *)
(* thrown.                                                                 *)
(***************************************************************************)
RECURSIVE Denote(_, _, _, _)
Denote(p, ex, vals, seen) ==
  CASE ex[1] = "const" -> ex[2]
    [] ex[1] \in {"read", "peek"} ->
         IF ex[2] \in Sources THEN vals[ex[2]]
         ELSE IF ex[2] \in seen THEN CycleError
         ELSE Denote(p, Compute(p, ex[2]), vals, seen \cup {ex[2]})
    [] ex[1] = "add" ->
         LET l == Denote(p, ex[2], vals, seen)
         IN  IF l >= CycleError THEN l
             ELSE LET r == Denote(p, ex[3], vals, seen)
                  IN  IF r >= CycleError THEN r ELSE Wrap(l + r)
    [] ex[1] = "ifpos" ->
         LET c == Denote(p, ex[2], vals, seen)
         IN  IF c >= CycleError THEN c
             ELSE IF c > 0 THEN Denote(p, ex[3], vals, seen)
             ELSE Denote(p, ex[4], vals, seen)
    [] ex[1] = "throwneg" ->
         LET v == Denote(p, ex[2], vals, seen)
         IN  IF v >= CycleError THEN v
             ELSE IF v < 0 THEN FormulaError ELSE v

\* the value signal or computed n should have on the signal values of m
Expected(m, n) ==
  Denote(m.prog, <<"read", n>>, [s \in Sources |-> m._value[s]], {})

(***************************************************************************)
(* The machine state handed through the translated code.                   *)
(***************************************************************************)
Machine ==
  [ prog |-> prog, evalContext |-> evalContext, batchedEffect |-> batchedEffect,
    batchDepth |-> batchDepth, batchIteration |-> batchIteration,
    globalVersion |-> globalVersion, edge |-> edge, _value |-> _value,
    _version |-> _version, _node |-> _node, _targets |-> _targets,
    _sources |-> _sources, _globalVersion |-> _globalVersion,
    _flags |-> _flags, _nextEffect |-> _nextEffect,
    ret |-> Undefined, exc |-> NoExc, caught |-> NoExc, log |-> <<>>,
    changes |-> changes, snap |-> hist.snap,
    live |-> created \ disposed, owed |-> owed,
    wrote |-> IF batchDepth = 0 THEN 0 ELSE hist.wrote,
    ran |-> IF batchDepth = 0 THEN {} ELSE hist.ran,
    twice |-> IF batchDepth = 0 THEN {} ELSE hist.twice ]

Aborted(m) == m.exc \in {Hang, ArenaFull}
Throw(m, err) == [m EXCEPT !.exc = err]
Return(m, v) == [m EXCEPT !.ret = v]
Note(m, ev) == [m EXCEPT !.log = Append(@, ev)]
\* more steps than there are nodes: the list walked is cyclic
Fuel == Cardinality(EdgeIds) + 1

\* statement sequencing: the code after a call, K, runs on the machine the
\* call leaves, unless the call never returns
Then(m, K(_)) == IF Aborted(m) THEN m ELSE K(m)
\* the code after a call that may throw: K is skipped by an exception
Try(m, K(_)) == IF m.exc # NoExc THEN m ELSE K(m)
\* the code after a call wrapped in try/catch or try/finally
Bind(m, K(_)) == K(m)

(***************************************************************************)
(* Signal._subscribe, Signal._unsubscribe, and the overrides of Computed.  *)
(***************************************************************************)
SignalSubscribe(m, s, nd) ==
  LET t == m._targets[s]
      m1 == IF t # NoNode THEN [m EXCEPT !.edge[t].prevTarget = nd] ELSE m
  IN  [m1 EXCEPT !.edge[nd].nextTarget = t,
                 !.edge[nd].prevTarget = NoNode,
                 !._targets[s] = nd]

SignalUnsubscribe(m, s, nd) ==
  LET prev == m.edge[nd].prevTarget
      next == m.edge[nd].nextTarget
      m1 == [m EXCEPT !.edge[nd].prevTarget = NoNode, !.edge[nd].nextTarget = NoNode]
      m2 == IF prev # NoNode THEN [m1 EXCEPT !.edge[prev].nextTarget = next] ELSE m1
      m3 == IF next # NoNode THEN [m2 EXCEPT !.edge[next].prevTarget = prev] ELSE m2
  IN  IF nd = m3._targets[s] THEN [m3 EXCEPT !._targets[s] = next] ELSE m3

RECURSIVE Subscribe(_, _, _)
RECURSIVE SubscribeSources(_, _, _)
RECURSIVE Unsubscribe(_, _, _)
RECURSIVE UnsubscribeSources(_, _, _)

ComputedSubscribe(m, d, nd) ==
  IF m._targets[d] = NoNode
  THEN Then(SubscribeSources(
                 [m EXCEPT !._flags[d] = @ \cup {STALE, SHOULD_SUBSCRIBE}],
                 m._sources[d], Fuel),
            LAMBDA m1 : SignalSubscribe(m1, d, nd))
  ELSE SignalSubscribe(m, d, nd)

\* node.signal._subscribe(node): dispatch on the class of the signal
Subscribe(m, s, nd) ==
  IF s \in Computeds THEN ComputedSubscribe(m, s, nd) ELSE SignalSubscribe(m, s, nd)

\* for (node = this._sources; node; node = node.nextSignal) node.signal._subscribe(node)
SubscribeSources(m, nd, fuel) ==
  IF nd = NoNode THEN m
  ELSE IF fuel = 0 THEN Throw(m, Hang)
  ELSE Then(Subscribe(m, m.edge[nd].signal, nd),
            LAMBDA m1 : SubscribeSources(m1, m1.edge[nd].nextSignal, fuel - 1))

\* Computed._unsubscribe without lines 331-337: the computed stays
\* subscribed to its sources when its last target leaves
ComputedUnsubscribeOnly(m, d, nd) == SignalUnsubscribe(m, d, nd)

ComputedUnsubscribe(m, d, nd) ==
  Bind(SignalUnsubscribe(m, d, nd),
       LAMBDA m1 :
         IF m1._targets[d] = NoNode
         THEN UnsubscribeSources([m1 EXCEPT !._flags[d] = @ \ {SHOULD_SUBSCRIBE}],
                                 m1._sources[d], Fuel)
         ELSE m1)

\* node.signal._unsubscribe(node): dispatch on the class of the signal
Unsubscribe(m, s, nd) ==
  IF s \in Computeds THEN ComputedUnsubscribe(m, s, nd) ELSE SignalUnsubscribe(m, s, nd)

\* for (node = this._sources; node; node = node.nextSignal) node.signal._unsubscribe(node)
UnsubscribeSources(m, nd, fuel) ==
  IF nd = NoNode THEN m
  ELSE IF fuel = 0 THEN Throw(m, Hang)
  ELSE Then(Unsubscribe(m, m.edge[nd].signal, nd),
            LAMBDA m1 : UnsubscribeSources(m1, m1.edge[nd].nextSignal, fuel - 1))

(***************************************************************************)
(* Effect._notify and Computed._notify.                                    *)
(***************************************************************************)
\* Effect._notify without the test of NOTIFIED of line 476
EffectNotifyAgain(m, ef) ==
  Note([m EXCEPT !._flags[ef] = @ \cup {NOTIFIED},
                 !._nextEffect[ef] = m.batchedEffect,
                 !.batchedEffect = ef],
       <<"notify", ef>>)

\* Effect._notify putting the effect behind the head of the queue
EffectNotifyBehindHead(m, ef) ==
  IF NOTIFIED \in m._flags[ef] THEN m
  ELSE IF m.batchedEffect = NoObj
  THEN Note([m EXCEPT !._flags[ef] = @ \cup {NOTIFIED},
                      !._nextEffect[ef] = NoObj,
                      !.batchedEffect = ef],
            <<"notify", ef>>)
  ELSE Note([m EXCEPT !._flags[ef] = @ \cup {NOTIFIED},
                      !._nextEffect[ef] = m._nextEffect[m.batchedEffect],
                      !._nextEffect[m.batchedEffect] = ef],
            <<"notify", ef>>)

EffectNotify(m, ef) ==
  IF NOTIFIED \notin m._flags[ef]
  THEN Note([m EXCEPT !._flags[ef] = @ \cup {NOTIFIED},
                      !._nextEffect[ef] = m.batchedEffect,
                      !.batchedEffect = ef],
            <<"notify", ef>>)
  ELSE m

RECURSIVE Notify(_, _)
RECURSIVE NotifyTargets(_, _, _)

\* Computed._notify without line 342 setting STALE
ComputedNotifyKeepsFresh(m, d) ==
  IF NOTIFIED \notin m._flags[d]
  THEN NotifyTargets([m EXCEPT !._flags[d] = @ \cup {NOTIFIED}],
                     m._targets[d], Fuel)
  ELSE m

ComputedNotify(m, d) ==
  IF NOTIFIED \notin m._flags[d]
  THEN NotifyTargets([m EXCEPT !._flags[d] = @ \cup {STALE, NOTIFIED}],
                     m._targets[d], Fuel)
  ELSE m

\* node.target._notify(): dispatch on the class of the target
Notify(m, t) ==
  IF t \in Computeds THEN ComputedNotify(m, t) ELSE EffectNotify(m, t)

\* for (node = this._targets; node; node = node.nextTarget) node.target._notify()
NotifyTargets(m, nd, fuel) ==
  IF nd = NoNode THEN m
  ELSE IF fuel = 0 THEN Throw(m, Hang)
  ELSE Then(Notify(m, m.edge[nd].target),
            LAMBDA m1 : NotifyTargets(m1, m1.edge[nd].nextTarget, fuel - 1))

(***************************************************************************)
(* prepareSources and cleanupSources.                                      *)
(***************************************************************************)
RECURSIVE PrepareLoop(_, _, _)
PrepareLoop(m, nd, fuel) ==
  IF nd = NoNode THEN m
  ELSE IF fuel = 0 THEN Throw(m, Hang)
  ELSE LET s == m.edge[nd].signal
           rollbackNode == m._node[s]
           m1 == [m EXCEPT !.edge[nd].rollbackNode =
                              IF rollbackNode # NoNode THEN rollbackNode ELSE @,
                           !.edge[nd].used = FALSE,
                           !._node[s] = nd]
       IN  PrepareLoop(m1, m1.edge[nd].nextSignal, fuel - 1)

PrepareSources(m, t) == PrepareLoop(m, m._sources[t], Fuel)

RECURSIVE CleanupLoop(_, _, _, _, _)
\* the loop of cleanupSources without line 281: a dependency that was not
\* used is dropped from the list and stays subscribed
CleanupLoopKeepsSubscribed(m, t, nd, sources, fuel) ==
  IF nd = NoNode THEN [m EXCEPT !._sources[t] = sources]
  ELSE IF fuel = 0 THEN Throw(Note(m, <<"cleanup", t>>), Hang)
  ELSE LET next == m.edge[nd].nextSignal
           s == m.edge[nd].signal
           kept == m.edge[nd].used
           k1 == IF sources # NoNode
                 THEN [m EXCEPT !.edge[sources].prevSignal = nd]
                 ELSE m
       IN  Then(IF kept
                THEN [k1 EXCEPT !.edge[nd].prevSignal = NoNode,
                                !.edge[nd].nextSignal = sources]
                ELSE [m EXCEPT !.edge[nd].nextSignal = NoNode],
                LAMBDA m1 :
                  CleanupLoop([m1 EXCEPT !._node[s] = m1.edge[nd].rollbackNode,
                                         !.edge[nd].rollbackNode = NoNode],
                              t, next, IF kept THEN nd ELSE sources, fuel - 1))

CleanupLoop(m, t, nd, sources, fuel) ==
  IF nd = NoNode THEN [m EXCEPT !._sources[t] = sources]
  ELSE IF fuel = 0 THEN Throw(Note(m, <<"cleanup", t>>), Hang)
  ELSE LET next == m.edge[nd].nextSignal
           s == m.edge[nd].signal
           kept == m.edge[nd].used
           k1 == IF sources # NoNode
                 THEN [m EXCEPT !.edge[sources].prevSignal = nd]
                 ELSE m
       IN  Then(IF kept
                THEN [k1 EXCEPT !.edge[nd].prevSignal = NoNode,
                                !.edge[nd].nextSignal = sources]
                ELSE Then(Unsubscribe(m, s, nd),
                          LAMBDA u1 : [u1 EXCEPT !.edge[nd].nextSignal = NoNode]),
                LAMBDA m1 :
                  CleanupLoop([m1 EXCEPT !._node[s] = m1.edge[nd].rollbackNode,
                                         !.edge[nd].rollbackNode = NoNode],
                              t, next, IF kept THEN nd ELSE sources, fuel - 1))

CleanupSources(m, t) == CleanupLoop(m, t, m._sources[t], NoNode, 4 * Fuel)

(***************************************************************************)
(* returnComputed, getValue, Computed.peek, the value getters.             *)
(***************************************************************************)
\* returnComputed without the throw of lines 296-298
ReturnComputedValue(m, d) ==
  LET m1 == [m EXCEPT !._flags[d] = @ \ {RUNNING}]
  IN  Return(Note(m1, <<"peeked", d, m1._value[d], Expected(m1, d)>>),
             m1._value[d])

ReturnComputed(m, d) ==
  LET m1 == [m EXCEPT !._flags[d] = @ \ {RUNNING}]
      m2 == Note(m1, <<"peeked", d, m1._value[d], Expected(m1, d)>>)
  IN  IF HAS_ERROR \in m1._flags[d]
      THEN Throw(m2, m1._value[d])
      ELSE Return(m2, m1._value[d])

\* the name of a new Node record of target t for signal s
FreshId(m, s, t) ==
  LET free == {k \in 1..MaxDup : <<s, t, k>> \notin DOMAIN m.edge}
  IN  IF free = {} THEN NoNode
      ELSE <<s, t, CHOOSE k \in free : \A j \in free : k <= j>>

RECURSIVE Peek(_, _)
RECURSIVE Eval(_, _)

\* lines 104-155 of getValue: the node of this read, in m.ret
TrackRead(m, s) ==
  LET ctx == m.evalContext
      old == m._node[s]
  IN  IF ctx = NoObj THEN Return(m, NoNode)
      ELSE IF old = NoNode \/ m.edge[old].target # ctx
      THEN LET nd == FreshId(m, s, ctx)
               rec == [signal |-> s, prevSignal |-> NoNode,
                       nextSignal |-> m._sources[ctx], target |-> ctx,
                       prevTarget |-> NoNode, nextTarget |-> NoNode,
                       version |-> 0, used |-> TRUE, rollbackNode |-> old]
               m1 == [m EXCEPT !.edge = [i \in DOMAIN m.edge \cup {nd} |->
                                           IF i = nd THEN rec ELSE m.edge[i]],
                               !._sources[ctx] = nd,
                               !._node[s] = nd]
           IN  IF nd = NoNode THEN Throw(m, ArenaFull)
               ELSE Then(IF SHOULD_SUBSCRIBE \in m._flags[ctx]
                         THEN Subscribe(m1, s, nd) ELSE m1,
                         LAMBDA m2 : Return(m2, nd))
      ELSE IF ~m.edge[old].used
      THEN LET head == m._sources[ctx]
               prev == m.edge[old].prevSignal
               next == m.edge[old].nextSignal
               m1 == [m EXCEPT !.edge[old].used = TRUE]
               m2 == IF prev # NoNode
                     THEN [m1 EXCEPT !.edge[prev].nextSignal = next] ELSE m1
               m3 == IF next # NoNode
                     THEN [m2 EXCEPT !.edge[next].prevSignal = prev] ELSE m2
               m4 == IF head # NoNode
                     THEN [m3 EXCEPT !.edge[head].prevSignal = old] ELSE m3
               m5 == [m4 EXCEPT !.edge[old].prevSignal = NoNode,
                                !.edge[old].nextSignal = head,
                                !._sources[ctx] = old]
           IN  Return(IF old # head THEN m5 ELSE m1, old)
      ELSE Return(m, NoNode)

\* how often signal s has changed: its writes of a new value, or the
\* recomputations that changed its cached value or its error state
Stamp(m, s) == IF s \in Sources THEN m._version[s] ELSE m.changes[s]

\* the evaluation of t has read s (what is kept is the first time it did)
Seen(m, t, s) ==
  IF t = NoObj \/ \E pr \in m.snap[t] : pr[1] = s THEN m
  ELSE [m EXCEPT !.snap[t] = @ \cup {<<s, Stamp(m, s)>>}]

GetValue(m, s) ==
  Then(TrackRead(m, s), LAMBDA m1 :
  Then(Peek(m1, s), LAMBDA m2 :
    LET nd == m1.ret
        m3 == IF nd # NoNode
              THEN [m2 EXCEPT !.edge[nd].version = m2._version[s]] ELSE m2
    IN  Seen(m3, m.evalContext, s)))

\* lines 372-387 of Computed.peek: the node the scan stops at, in m.ret
RECURSIVE ScanSources(_, _, _)
ScanSources(m, nd, fuel) ==
  IF nd = NoNode THEN Return(m, NoNode)
  ELSE IF fuel = 0 THEN Throw(m, Hang)
  ELSE LET s == m.edge[nd].signal
       IN  IF m._version[s] # m.edge[nd].version THEN Return(m, nd)
           ELSE Then(Peek(m, s), LAMBDA m1 :
                  LET m2 == [m1 EXCEPT !.exc = NoExc]
                  IN  IF m2._version[s] # m2.edge[nd].version THEN Return(m2, nd)
                      ELSE ScanSources(m2, m2.edge[nd].nextSignal, fuel - 1))

\* the signals the last evaluation of t read, directly or through the last
\* evaluations of the computeds it read
Direct(snap, t) == {pr[1] : pr \in snap[t]}
RECURSIVE Closure(_, _)
Closure(snap, S) ==
  LET N == S \cup UNION {Direct(snap, d) : d \in S \cap Computeds}
  IN  IF N = S THEN S ELSE Closure(snap, N)
ReadsOf(snap, t) == Closure(snap, Direct(snap, t))
\* the live effects whose last run read s
Readers(m, s) == {ef \in m.live : s \in ReadsOf(m.snap, ef)}

\* no signal the last evaluation of t read, directly or through the last
\* evaluations of computeds, has changed since
RECURSIVE Quiet(_, _)
Quiet(m, t) ==
  \A pr \in m.snap[t] :
    Stamp(m, pr[1]) = pr[2] /\ (pr[1] \in Computeds => Quiet(m, pr[1]))

\* the evaluation of t that ends in m has read again every signal the
\* evaluation before it had read (before), and found none of them changed
Reread(m, t, before) == before # {} /\ \A pr \in before : pr \in m.snap[t]

\* lines 393-418 of Computed.peek
Recompute(m, d) ==
  Then(PrepareSources([m EXCEPT !.evalContext = d, !.snap[d] = {}], d),
       LAMBDA m2 :
  Then(Eval(m2, Compute(m.prog, d)), LAMBDA m3 :
  Then(CleanupSources(Note([m3 EXCEPT !.exc = NoExc],
                           <<"compute", d, Reread(m3, d, m.snap[d])>>), d),
       LAMBDA m4 :
    LET prevContext == m.evalContext
        valueIsError == m3.exc # NoExc
        value == IF valueIsError THEN m3.exc ELSE m3.ret
        differs == \/ m4._version[d] = 0
                   \/ valueIsError # (HAS_ERROR \in m4._flags[d])
                   \/ m4._value[d] # value
        m5 == [m4 EXCEPT !.evalContext = prevContext,
                         !.changes[d] = IF differs THEN @ + 1 ELSE @]
    IN  ReturnComputed(
          Note(IF valueIsError \/ HAS_ERROR \in m5._flags[d]
                  \/ m5._value[d] # value \/ m5._version[d] = 0
               THEN [m5 EXCEPT !._flags[d] = IF valueIsError
                                             THEN @ \cup {HAS_ERROR}
                                             ELSE @ \ {HAS_ERROR},
                               !._value[d] = value,
                               !._version[d] = @ + 1]
               ELSE m5,
               <<"exit", d, m5.evalContext = m.evalContext>>), d))))

ComputedPeek(m, d) ==
  LET m0 == [m EXCEPT !._flags[d] = @ \ {NOTIFIED}]
      m1 == [m0 EXCEPT !._flags[d] = @ \cup {RUNNING}]
      m2 == [m1 EXCEPT !._flags[d] = @ \ {STALE}]
      m3 == [m2 EXCEPT !._globalVersion[d] = m.globalVersion]
  IN  IF RUNNING \in m0._flags[d] THEN Throw(m0, CycleError)
      ELSE IF STALE \notin m1._flags[d] /\ m1._targets[d] # NoNode
      THEN ReturnComputed(m1, d)
      ELSE IF m2._globalVersion[d] = m2.globalVersion
      THEN ReturnComputed(m2, d)
      ELSE Then(IF m3._version[d] > 0
                THEN ScanSources(m3, m3._sources[d], Fuel)
                ELSE Return(m3, NoNode),
                LAMBDA m4 :
                  IF m3._version[d] > 0 /\ m4.ret = NoNode
                  THEN ReturnComputed(m4, d)
                  ELSE Recompute(m4, d))

\* signal.peek(): dispatch on the class of the signal
Peek(m, s) ==
  IF s \in Computeds THEN ComputedPeek(m, s) ELSE Return(m, m._value[s])

\* signal.value: Signal's getter, or Computed's
GetterValue(m, s) ==
  IF s \in Computeds /\ RUNNING \in m._flags[s] THEN Throw(m, CycleError)
  ELSE GetValue(m, s)

\* a compute function, or an expression of an effect callback
Eval(m, ex) ==
  CASE ex[1] = "const" -> Return(m, ex[2])
    [] ex[1] = "read" -> GetterValue(m, ex[2])
    [] ex[1] = "peek" -> Peek(m, ex[2])
    [] ex[1] = "add" ->
         Try(Eval(m, ex[2]), LAMBDA l :
         Try(Eval(l, ex[3]), LAMBDA r : Return(r, Wrap(l.ret + r.ret))))
    [] ex[1] = "ifpos" ->
         Try(Eval(m, ex[2]),
             LAMBDA c : IF c.ret > 0 THEN Eval(c, ex[3]) ELSE Eval(c, ex[4]))
    [] ex[1] = "throwneg" ->
         Try(Eval(m, ex[2]),
             LAMBDA v : IF v.ret < 0 THEN Throw(v, FormulaError) ELSE v)

(***************************************************************************)
(* endBatch, the setter of Signal.value, the callback of effect(),         *)
(* Effect._start, endEffect, Effect._dispose.                              *)
(***************************************************************************)
RECURSIVE EndBatch(_)
RECURSIVE DrainInner(_, _, _)
RECURSIVE EffectCallback(_, _)
RECURSIVE Exec(_, _, _, _)
RECURSIVE SetValue(_, _, _)
RECURSIVE DrainOuter(_, _)

\* the inner loop of endBatch without the try/catch of lines 60-67: an error
\* thrown by a callback ends the loop
DrainInnerUncaught(m, ef, err) ==
  IF ef = NoObj THEN Throw(m, err)
  ELSE Then(EffectCallback([m EXCEPT !._nextEffect[ef] = NoObj,
                                     !._flags[ef] = @ \ {NOTIFIED},
                                     !.ran = @ \cup {ef},
                                     !.twice = IF ef \in m.ran
                                               THEN @ \cup {ef} ELSE @], ef),
            LAMBDA m2 :
              IF m2.exc # NoExc THEN Note(m2, <<"threw", ef, m2.exc>>)
              ELSE DrainInner(m2, m._nextEffect[ef], err))

\* lines 56-69: err is the first error caught so far (NoExc: hasError is false)
DrainInner(m, ef, err) ==
  IF ef = NoObj THEN Throw(m, err)
  ELSE Then(EffectCallback([m EXCEPT !._nextEffect[ef] = NoObj,
                                     !._flags[ef] = @ \ {NOTIFIED},
                                     !.ran = @ \cup {ef},
                                     !.twice = IF ef \in m.ran
                                               THEN @ \cup {ef} ELSE @], ef),
            LAMBDA m2 :
              DrainInner([(IF m2.exc = NoExc THEN m2
                           ELSE Note(m2, <<"threw", ef, m2.exc>>))
                            EXCEPT !.exc = NoExc], m._nextEffect[ef],
                         IF err = NoExc THEN m2.exc ELSE err))

\* lines 51-69: one iteration of the while loop of endBatch
DrainStep(m) ==
  Then(DrainInner(Note([m EXCEPT !.batchedEffect = NoObj,
                                 !.batchIteration = @ + 1],
                       <<"drain", m.batchIteration + 1>>),
                  m.batchedEffect, m.caught),
       LAMBDA m2 : [m2 EXCEPT !.exc = NoExc, !.caught = m2.exc])

\* line 50: 2^k iterations of while (batchedEffect !== undefined)
DrainOuter(m, k) ==
  IF Aborted(m) \/ m.batchedEffect = NoObj THEN m
  ELSE IF k = 0 THEN DrainStep(m)
  ELSE DrainOuter(DrainOuter(m, k - 1), k - 1)

\* endBatch without the early return of lines 42-45
EndBatchAtAnyDepth(m) ==
  Then(DrainOuter([m EXCEPT !.caught = NoExc], DrainDepth),
       LAMBDA m1 :
         IF m1.batchedEffect # NoObj THEN Throw(m1, ArenaFull)
         ELSE [m1 EXCEPT !.batchIteration = 0, !.batchDepth = @ - 1,
                         !.exc = m1.caught, !.caught = m.caught])

EndBatch(m) ==
  IF m.batchDepth > 1 THEN [m EXCEPT !.batchDepth = @ - 1]
  ELSE Then(DrainOuter([m EXCEPT !.caught = NoExc], DrainDepth),
            LAMBDA m1 :
              IF m1.batchedEffect # NoObj THEN Throw(m1, ArenaFull)
              ELSE [m1 EXCEPT !.batchIteration = 0, !.batchDepth = @ - 1,
                              !.exc = m1.caught, !.caught = m.caught])

StartBatch(m) == [m EXCEPT !.batchDepth = @ + 1]

\* the setter without the comparison of line 226
SetValueAlways(m, s, v) ==
  IF m.batchIteration > MaxBatchIteration THEN Throw(m, CycleError)
  ELSE Then(NotifyTargets(Note(StartBatch([m EXCEPT !._value[s] = v,
                                                    !._version[s] = @ + 1,
                                                    !.globalVersion = @ + 1,
                                                    !.wrote = @ + 1,
                                                    !.owed = @ \cup Readers(m, s)]),
                               <<"write", s, v>>),
                          m._targets[s], Fuel),
            LAMBDA m2 : EndBatch(m2))

SetValue(m, s, v) ==
  IF v = m._value[s] THEN m
  ELSE IF m.batchIteration > MaxBatchIteration THEN Throw(m, CycleError)
  ELSE Then(NotifyTargets(Note(StartBatch([m EXCEPT !._value[s] = v,
                                                    !._version[s] = @ + 1,
                                                    !.globalVersion = @ + 1,
                                                    !.wrote = @ + 1,
                                                    !.owed = @ \cup Readers(m, s)]),
                               <<"write", s, v>>),
                          m._targets[s], Fuel),
            LAMBDA m2 : EndBatch(m2))

\* the statements of an effect callback, from the i-th on
Exec(m, ef, stmts, i) ==
  IF i > Len(stmts) THEN m
  ELSE LET st == stmts[i]
       IN  Try(CASE st[1] = "log" ->
                      Try(Eval(m, st[2]),
                          LAMBDA v : Note(v, <<"saw", ef, v.ret>>))
                 [] st[1] = "set" ->
                      Try(Eval(m, st[3]),
                          LAMBDA v : SetValue(v, st[2], v.ret))
                 [] st[1] = "setif" ->
                      Try(Eval(m, st[2]), LAMBDA c :
                        IF c.ret <= 0 THEN c
                        ELSE Try(Eval(c, st[4]),
                                 LAMBDA v : SetValue(v, st[3], v.ret)))
                 [] st[1] = "throw" -> Throw(m, EffectError)
                 [] st[1] = "throwif" ->
                      Try(Eval(m, st[2]), LAMBDA c :
                        IF c.ret > 0 THEN Throw(c, EffectError) ELSE c),
               LAMBDA m1 : Exec(m1, ef, stmts, i + 1))

\* Effect._start: lines 460-472
EffectStart(m, ef) ==
  IF RUNNING \in m._flags[ef] THEN Throw(Note(m, <<"refused", ef>>), CycleError)
  ELSE PrepareSources(
         [StartBatch(m) EXCEPT !._flags[ef] = @ \cup {RUNNING},
                               !.evalContext = ef,
                               !.snap[ef] = {}],
         ef)

\* endEffect without line 444: evalContext stays the effect
EndEffectKeepsContext(m, ef, prevContext) ==
  Then(CleanupSources(m, ef), LAMBDA m1 :
  Try(EndBatch(m1),
      LAMBDA m2 : [m2 EXCEPT !._flags[ef] = @ \ {RUNNING}]))

\* endEffect: an error thrown by endBatch leaves RUNNING set
EndEffect(m, ef, prevContext) ==
  Then(CleanupSources(m, ef), LAMBDA m1 :
  Try(EndBatch([m1 EXCEPT !.evalContext = prevContext]),
      LAMBDA m2 : [m2 EXCEPT !._flags[ef] = @ \ {RUNNING}]))

\* the run of ef that ends in m read again every signal its previous run
\* had read, all of them computeds, and found none of them changed
Ran(m, ef, before) ==
  IF Reread(m, ef, before) /\ \A pr \in before : pr[1] \in Computeds
  THEN Note(m, <<"idle", ef>>) ELSE m

\* effect._callback: lines 492-499
EffectCallback(m, ef) ==
  Try(EffectStart(m, ef), LAMBDA m1 :
  Then(Exec(Note([m1 EXCEPT !.owed = @ \ {ef}], <<"run", ef>>),
            ef, Callback(m.prog, ef), 1),
       LAMBDA m2 :
  Then(EndEffect([Ran(m2, ef, m.snap[ef]) EXCEPT !.exc = NoExc], ef, m.evalContext),
       LAMBDA m3 :
         Try(Note(m3, <<"exit", ef, m3.evalContext = m.evalContext>>),
             LAMBDA m4 : Throw(m4, m2.exc)))))

\* Effect._dispose
EffectDispose(m, ef) ==
  Then(UnsubscribeSources(m, m._sources[ef], Fuel),
       LAMBDA m1 : [m1 EXCEPT !._sources[ef] = NoNode])

(***************************************************************************)
(* The state after construction, and one action per public operation.      *)
(***************************************************************************)
\* depth of nested batch() calls the model enters
MaxNest == 2

\* the nodes still referenced by some object or by a referenced node
RECURSIVE Reach(_, _)
Reach(m, S) ==
  LET N == (S \cup UNION {{m.edge[i].prevSignal, m.edge[i].nextSignal,
                           m.edge[i].prevTarget, m.edge[i].nextTarget,
                           m.edge[i].rollbackNode} : i \in S}) \ {NoNode}
  IN  IF N = S THEN S ELSE Reach(m, N)

Live(m) ==
  Reach(m, ({m._node[s] : s \in Signals} \cup {m._targets[s] : s \in Signals}
            \cup {m._sources[t] : t \in Targets}) \ {NoNode})

\* the events of one kind in the log of an operation
Events(log, kind) == {log[i] : i \in {j \in 1..Len(log) : log[j][1] = kind}}

\* the effects whose callback ran, in the order they ran
Runs(log) ==
  LET isRun(ev) == ev[1] = "run"
      evs == SelectSeq(log, isRun)
  IN  [i \in 1..Len(evs) |-> evs[i][2]]

\* the errors the drain loop caught, in the order they were thrown
Thrown(log) ==
  LET isThrow(ev) == ev[1] = "threw"
      evs == SelectSeq(log, isThrow)
  IN  [i \in 1..Len(evs) |-> evs[i][3]]

\* the objects of the events of the given kinds, in the order of the log
Project(log, kinds) ==
  LET isKind(ev) == ev[1] \in kinds
      evs == SelectSeq(log, isKind)
  IN  [i \in 1..Len(evs) |-> evs[i][2]]

\* the log cut at the iterations of the outer loop of endBatch: the effects
\* notified and the callbacks called before the first iteration, in the
\* first, in the second, ...
Passes(log) ==
  LET at == {i \in 1..Len(log) : log[i][1] = "drain"}
      from(k) == IF k = 0 THEN 0
                 ELSE CHOOSE i \in at : Cardinality({j \in at : j <= i}) = k
      upto(k) == IF k = Cardinality(at) THEN Len(log) + 1 ELSE from(k + 1)
      seg(k) == SubSeq(log, from(k) + 1, upto(k) - 1)
  IN  [k \in 1..(Cardinality(at) + 1) |->
         [marked |-> Project(seg(k - 1), {"notify"}),
          called |-> Project(seg(k - 1), {"run", "refused"})]]

\* the operation op has taken the machine to m
Commit(m, op) ==
  /\ prog' = prog
  /\ evalContext' = m.evalContext
  /\ batchedEffect' = m.batchedEffect
  /\ batchDepth' = m.batchDepth
  /\ batchIteration' = m.batchIteration
  /\ globalVersion' = m.globalVersion
  /\ edge' = [i \in Live(m) |-> m.edge[i]]
  /\ _value' = m._value
  /\ _version' = m._version
  /\ _node' = m._node
  /\ _targets' = m._targets
  /\ _sources' = m._sources
  /\ _globalVersion' = m._globalVersion
  /\ _flags' = m._flags
  /\ _nextEffect' = m._nextEffect
  /\ hung' = Aborted(m)
  /\ changes' = m.changes
  /\ LET runs == Runs(m.log)
         ran == {runs[i] : i \in 1..Len(runs)}
         times(ef) == Cardinality({i \in 1..Len(runs) : runs[i] = ef})
         dis == IF op[1] = "dispose" THEN disposed \cup {op[2]} ELSE disposed
         pen == IF op[1] = "dispose" /\ NOTIFIED \in _flags[op[2]]
                THEN pending \cup {op[2]} ELSE pending
     IN  /\ disposed' = dis
         /\ pending' = pen \ ran
         /\ late' = late \cup {ef \in dis : times(ef) > IF ef \in pen THEN 1 ELSE 0}
         /\ owed' = m.owed \ dis
         /\ hist' = [op |-> op, ret |-> m.ret, exc |-> m.exc, snap |-> m.snap,
                     runs |-> runs,
                     computes |-> {ev[2] : ev \in Events(m.log, "compute")},
                     needless |-> {ev[2] : ev \in
                                    {c \in Events(m.log, "compute") : c[3]}},
                     wrong |-> {ev[2] : ev \in
                                 {c \in Events(m.log, "peeked") : c[3] # c[4]}},
                     idle |-> {ev[2] : ev \in Events(m.log, "idle")},
                     notified |-> {ev[2] : ev \in Events(m.log, "notify")},
                     drains |-> Cardinality(Events(m.log, "drain")),
                     threw |-> Thrown(m.log),
                     passes |-> Passes(m.log),
                     unscoped |-> {ev[2] : ev \in
                                    {x \in Events(m.log, "exit") : ~x[3]}},
                     stray |-> /\ op[1] = "write"
                               /\ Readers(Machine, op[2]) = {}
                               /\ Events(m.log, "notify") \cup
                                    Events(m.log, "compute") # {},
                     wrote |-> m.wrote, ran |-> m.ran, twice |-> m.twice]

InitProg(progs) ==
  /\ prog \in progs
  /\ evalContext = NoObj
  /\ batchedEffect = NoObj
  /\ batchDepth = 0
  /\ batchIteration = 0
  /\ globalVersion = 0
  /\ edge = <<>>
  /\ _value = [s \in Signals |->
                 IF s \in Sources THEN Programs[prog].init[s] ELSE Undefined]
  /\ _version = [s \in Signals |-> 0]
  /\ _node = [s \in Signals |-> NoNode]
  /\ _targets = [s \in Signals |-> NoNode]
  /\ _sources = [t \in Targets |-> NoNode]
  /\ _globalVersion = [d \in Computeds |-> globalVersion - 1]
  /\ _flags = [t \in Targets |-> IF t \in Computeds THEN {STALE} ELSE {}]
  /\ _nextEffect = [ef \in Effects |-> NoObj]
  /\ created = {}
  /\ disposers = {}
  /\ batchStack = <<>>
  /\ hung = FALSE
  /\ changes = [d \in Computeds |-> 0]
  /\ disposed = {}
  /\ pending = {}
  /\ late = {}
  /\ owed = {}
  /\ hist = [op |-> <<"init">>, ret |-> Undefined, exc |-> NoExc,
             snap |-> [t \in Targets |-> {}], runs |-> <<>>,
             computes |-> {}, needless |-> {}, wrong |-> {}, idle |-> {},
             notified |-> {}, drains |-> 0, threw |-> <<>>, stray |-> FALSE,
             passes |-> << [marked |-> <<>>, called |-> <<>>] >>,
             unscoped |-> {},
             wrote |-> 0, ran |-> {}, twice |-> {}]

Init == InitProg(Terminating)
InitFeedback == InitProg(Feeding)
InitCycle == InitProg(Cyclic)
InitDrain == InitProg(Throwing)

\* s.value = v
Write(s, v) ==
  /\ ~hung
  /\ globalVersion < MaxWrites
  /\ <<s, v>> \in Programs[prog].writes
  /\ Commit(SetValue(Machine, s, v), <<"write", s, v>>)
  /\ UNCHANGED <<created, disposers, batchStack>>

\* d.value outside any compute function or effect callback
Read(d) ==
  /\ ~hung
  /\ d \in Programs[prog].computeds
  /\ Commit(GetterValue(Machine, d), <<"get", d>>)
  /\ UNCHANGED <<created, disposers, batchStack>>

\* d.peek() outside any compute function or effect callback
PeekOp(d) ==
  /\ ~hung
  /\ d \in Programs[prog].computeds
  /\ Commit(Peek(Machine, d), <<"get", d>>)
  /\ UNCHANGED <<created, disposers, batchStack>>

\* effect(callback): new Effect, its first run, and the disposer returned
CreateEffect(ef) ==
  /\ ~hung
  /\ ef \in Programs[prog].effects \ created
  /\ LET m0 == [Machine EXCEPT !._flags[ef] = {SHOULD_SUBSCRIBE},
                               !._sources[ef] = NoNode,
                               !._nextEffect[ef] = NoObj,
                               !.live = @ \cup {ef}]
         m1 == EffectCallback(m0, ef)
     IN  /\ Commit(m1, <<"effect", ef>>)
         /\ disposers' = IF m1.exc = NoExc THEN disposers \cup {ef} ELSE disposers
  /\ created' = created \cup {ef}
  /\ UNCHANGED batchStack

\* the disposer effect() returned
Dispose(ef) ==
  /\ ~hung
  /\ ef \in disposers \ disposed
  /\ Commit(EffectDispose(Machine, ef), <<"dispose", ef>>)
  /\ UNCHANGED <<created, disposers, batchStack>>

\* batch(callback) up to the call of callback
BatchEnter ==
  /\ ~hung
  /\ Len(batchStack) < MaxNest
  /\ IF batchDepth > 0
     THEN /\ Commit(Machine, <<"batch">>)
          /\ batchStack' = Append(batchStack, FALSE)
     ELSE /\ Commit(StartBatch(Machine), <<"batch">>)
          /\ batchStack' = Append(batchStack, TRUE)
  /\ UNCHANGED <<created, disposers>>

\* batch(callback) from the return of callback on
BatchExit ==
  /\ ~hung
  /\ Len(batchStack) > 0
  /\ IF batchStack[Len(batchStack)]
     THEN Commit(EndBatch(Machine), <<"endbatch">>)
     ELSE Commit(Machine, <<"endbatch">>)
  /\ batchStack' = SubSeq(batchStack, 1, Len(batchStack) - 1)
  /\ UNCHANGED <<created, disposers>>

Next ==
  \/ \E s \in Sources, v \in Vals : Write(s, v)
  \/ \E d \in Computeds : Read(d)
  \/ \E d \in Computeds : PeekOp(d)
  \/ \E ef \in Effects : CreateEffect(ef)
  \/ \E ef \in Effects : Dispose(ef)
  \/ BatchEnter
  \/ BatchExit

Spec == Init /\ [][Next]_vars
SpecFeedback == InitFeedback /\ [][Next]_vars
SpecCycle == InitCycle /\ [][Next]_vars
SpecDrain == InitDrain /\ [][Next]_vars

(***************************************************************************)
(* The properties checked.                                                 *)
(***************************************************************************)
\* C1: every read or peek of a computed, at top level, inside a batch,
\* inside another compute function or inside an effect run, hands back what
\* its compute function yields on the current values of the signals; a
\* stale cached value is never handed back.
C1_GlitchFree == hist.wrong = {}

\* a computed with subscribers is read inside a batch after a write that
\* notified an effect, and is recomputed by that read
C1_Witness ==
  /\ hist.op = <<"get", "y">>
  /\ batchDepth > 0
  /\ batchedEffect # NoObj
  /\ _targets["y"] # NoNode
  /\ "y" \in hist.computes

\* C2: once a write of a new value made outside any batch, or the outermost
\* batch around it, is over, every effect that is not disposed and whose last
\* run had read the written signal, directly or through computeds, has run
\* again after the write.
C2_EffectsRerun == (batchDepth = 0 /\ ~hung) => owed = {}

\* the same, apart from the effects whose RUNNING flag was left set
C2_RerunUnlessRunning ==
  (batchDepth = 0 /\ ~hung) => \A ef \in owed : RUNNING \in _flags[ef]

\* C3: while a batch() call is open, nested batch() calls and their returns
\* included, the queue of notified effects is not drained: no effect has
\* been run by endBatch since the outermost batch() call began.
C3_BatchDefers == batchStack # <<>> => hist.ran = {}

\* a nested batch() call has returned after a write inside the outermost
\* one notified an effect, which is still in the queue
C3_Witness ==
  /\ hist.op = <<"endbatch">>
  /\ batchStack # <<>>
  /\ hist.wrote > 0
  /\ batchedEffect # NoObj

\* C4: when no effect callback writes, the writes of one outermost batch,
\* as many as they are and whatever they reach, make endBatch run each effect
\* at most once.
C4_BatchCoalesces == ~EffectsWrite(prog) => hist.twice = {}

\* an outermost batch with two writes of a new value has ended and has run
\* both effects of the diamond
C4_Witness ==
  /\ hist.op = <<"endbatch">>
  /\ batchStack = <<>>
  /\ ~EffectsWrite(prog)
  /\ hist.wrote >= 2
  /\ hist.ran = {"e", "f"}

\* C5: an effect whose last run read only computeds is not run again by a
\* write after which every computed it read has the value, and the error
\* state, it had when the effect read it.
C5_OnlyAffectedRerun == hist.op[1] = "write" => hist.idle = {}

\* C6: a read or peek of a computed that has been evaluated before does not
\* call its compute function when nothing its last evaluation read has
\* changed since: no signal among them was written a new value, no computed
\* among them was recomputed to another value or another error state.
C6_NoNeedlessCompute == hist.needless = {}

\* the same, apart from the computeds that read a computed whose version
\* was raised by a recomputation that threw the error it had thrown before
C6_NeedlessOnlyAfterRethrow ==
  \A d \in hist.needless :
    \E s \in Direct(hist.snap, d) \cap Computeds :
      HAS_ERROR \in _flags[s] /\ _version[s] > changes[s]

\* C7: between operations, a signal or computed that no live effect reads,
\* directly or through computeds, has no target (also after the last effect
\* that read it was disposed or stopped reading it), and a write to such a
\* signal notifies no effect and calls no compute function.
C7_LazySubscription ==
  ~hung => /\ \A s \in Signals : Readers(Machine, s) = {} => _targets[s] = NoNode
           /\ ~hist.stray

\* the same, with the disposed effects counted as live
C7_UnlessDisposed ==
  ~hung => \A s \in Signals :
             Readers([Machine EXCEPT !.live = created], s) = {}=> _targets[s] = NoNode

\* C8: once its disposer has been called an effect runs at most one more
\* time, and only if it was in the queue when it was disposed; no later
\* write makes it run again.
C8_DisposeDetaches == late = {}

\* a read or peek of a computed that holds an error, while nothing it read
\* has changed, throws that error and does not call the compute function;
\* with rethrown = FALSE only while no recomputation has raised the version
\* of a computed by throwing the error it had thrown before
C9_Cached(rethrown) ==
  \A d \in Computeds :
    (/\ HAS_ERROR \in _flags[d]
     /\ Quiet(Machine, d)
     /\ rethrown \/ \A s \in Computeds : _version[s] = changes[s]
     /\ hist'.op = <<"get", d>>)
    => hist'.exc = _value[d] /\ d \notin hist'.computes

\* a read or peek of a computed whose compute function succeeds on the
\* current signal values returns its value and leaves HAS_ERROR clear, and a
\* write after which every compute function succeeds makes no effect run
\* throw the error of a compute function
C9_Recovers ==
  /\ \A d \in Computeds :
       (/\ hist'.op = <<"get", d>>
        /\ Expected([prog |-> prog, _value |-> _value'], d) \in Vals)
       => /\ hist'.exc = NoExc
          /\ hist'.ret = Expected([prog |-> prog, _value |-> _value'], d)
          /\ HAS_ERROR \notin _flags'[d]
  /\ (/\ hist'.op[1] = "write"
      /\ \A d \in Programs[prog].computeds :
           Expected([prog |-> prog, _value |-> _value'], d) \in Vals)
     => hist'.exc # FormulaError

\* C9: a computed that holds an error throws it on every read or peek
\* without calling its compute function as long as nothing it read has
\* changed, and once its compute function succeeds again the next read
\* returns the new value, HAS_ERROR is cleared and the effects that read it
\* run without that error.
C9_ErrorCaptured == [][C9_Cached(TRUE) /\ C9_Recovers]_vars

\* the same, apart from the reads made after a recomputation has raised the
\* version of a computed by throwing the error it had thrown before
C9_CapturedUnlessRethrown == [][C9_Cached(FALSE) /\ C9_Recovers]_vars

\* a read of x throws the error x holds without calling its compute function
C9_Witness ==
  /\ hist.op = <<"get", "x">>
  /\ hist.exc = FormulaError
  /\ HAS_ERROR \in _flags["x"]
  /\ "x" \notin hist.computes

\* C10: an effect that writes a signal it reads stops, and an operation
\* throws "Cycle detected" only after the while loop of endBatch has gone
\* through 100 iterations.
C10_CycleAfter100 ==
  /\ ~hung
  /\ hist.exc = CycleError => hist.drains >= MaxBatchIteration

\* the feedback loop always ends
C10_Terminates == ~hung

\* an operation that throws "Cycle detected" and leaves no effect RUNNING has
\* gone through more than 100 iterations
C10_CycleAfter100UnlessRunning ==
  (hist.exc = CycleError /\ \A ef \in Effects : RUNNING \notin _flags[ef])
    => hist.drains > MaxBatchIteration

\* a write inside the drain loop is refused once batchIteration is over 100
C10_Witness == hist.exc = CycleError /\ hist.drains > MaxBatchIteration

\* C11: a read or peek of a computed whose compute function reads that same
\* computed, directly or through other computeds, returns: it throws
\* "Cycle detected".
C11_CycleDetected ==
  /\ ~hung
  /\ (hist.op[1] = "get" /\ Expected(Machine, hist.op[2]) = CycleError)
       => hist.exc = CycleError

\* the same for the reads and peeks made while no computed holds a value
\* from an earlier evaluation, which the scan of lines 372-387 could return
C11_CycleDetectedAtFirst ==
  [][(/\ hist'.op[1] = "get"
      /\ Expected([prog |-> prog, _value |-> _value'], hist'.op[2]) = CycleError
      /\ \A d \in Computeds : _version[d] = 0 \/ HAS_ERROR \in _flags[d])
     => hist'.exc = CycleError /\ ~hung']_vars

\* a read of x, whose compute function reads y, which peeks x, has thrown
C11_Witness ==
  /\ hist.op = <<"get", "x">>
  /\ Expected(Machine, "x") = CycleError
  /\ hist.exc = CycleError
  /\ {"x", "y"} \subseteq hist.computes

\* the effects in the queue before the step and those notified in it
C12_Queued == {ef \in Effects : NOTIFIED \in _flags[ef]} \cup hist'.notified

\* the drain loop has called the callback of ef: its body ran, or _start
\* refused it
C12_Called(ef) ==
  \/ \E i \in DOMAIN hist'.runs : hist'.runs[i] = ef
  \/ RUNNING \in _flags[ef]

\* a step whose drain caught an error leaves the queue empty and throws the
\* first error caught
C12_FirstError ==
  (~hung' /\ batchDepth' = 0 /\ hist'.threw # <<>>)
    => /\ batchedEffect' = NoObj
       /\ \A ef \in Effects :
            NOTIFIED \notin _flags'[ef] /\ _nextEffect'[ef] = NoObj
       /\ hist'.exc = hist'.threw[1]

RECURSIVE C13_Queue(_)
C13_Queue(ef) ==
  IF ef = NoObj THEN <<>> ELSE <<ef>> \o C13_Queue(_nextEffect[ef])

C13_Reverse(q) == [i \in 1..Len(q) |-> q[Len(q) + 1 - i]]

\* C13: each iteration of the outer loop of endBatch calls the callbacks of
\* the effects notified since the iteration before, the last notified
\* first: an effect notified before another one runs after it.
C13_LIFO ==
  [][~hung' =>
      \A k \in 2..Len(hist'.passes) :
        hist'.passes[k].called =
          C13_Reverse(hist'.passes[k - 1].marked)
            \o (IF k = 2 THEN C13_Queue(batchedEffect) ELSE <<>>)]_vars

\* one write notified e and then f, and the drain ran f and then e
C13_Witness ==
  /\ hist.op[1] = "write"
  /\ Len(hist.passes) = 2
  /\ Len(hist.passes[1].marked) = 2
  /\ hist.passes[2].called = C13_Reverse(hist.passes[1].marked)
  /\ hist.exc = NoExc

\* how many times the drain loop called the callback of ef in the last step
C14_Calls(ef) ==
  Cardinality({<<k, i>> \in (1..Len(hist'.passes)) \X (1..Cardinality(Effects) + 1) :
                 /\ i <= Len(hist'.passes[k].called)
                 /\ hist'.passes[k].called[i] = ef})

\* a write of the value the signal holds changes nothing and runs nothing
C14_SameValue ==
  (hist'.op[1] = "write" /\ hist'.op[3] = _value[hist'.op[2]])
    => /\ UNCHANGED <<evalContext, batchedEffect, batchDepth, batchIteration,
                      globalVersion, edge, _value, _version, _node, _targets,
                      _sources, _globalVersion, _flags, _nextEffect>>
       /\ hist'.passes = << [marked |-> <<>>, called |-> <<>>] >>
       /\ hist'.computes = {}
       /\ hist'.exc = NoExc

\* a write of another value outside a batch calls the callback of each
\* effect that read the signal once, when no effect callback writes
C14_NewValue ==
  (/\ hist'.op[1] = "write" /\ hist'.op[3] # _value[hist'.op[2]]
   /\ batchDepth = 0 /\ ~hung' /\ ~EffectsWrite(prog))
    => \A ef \in Readers(Machine, hist'.op[2]) : C14_Calls(ef) = 1

\* C14: writing to a signal the value it holds is a no-op: versions, flags
\* and the queue are unchanged and nothing runs, so that of two writes of
\* the same value only the first, when the value is new, triggers the
\* effects that read the signal, once each.
C14_IdempotentWrite == [][C14_SameValue /\ C14_NewValue]_vars

\* a, which an effect has read, has been written 0 twice, the second time
\* with nothing happening
C14_Witness ==
  /\ hist.op = <<"write", "a", 0>>
  /\ _version["a"] = 1
  /\ _value["a"] = 0
  /\ hist.computes = {} /\ hist.runs = <<>>
  /\ Readers(Machine, "a") # {}

\* the signals of the sources list from nd on, "cyclic" where the walk has
\* made more steps than there are Node records
RECURSIVE C15_Walk(_, _)
C15_Walk(nd, fuel) ==
  IF nd = NoNode THEN <<>>
  ELSE IF fuel = 0 THEN <<"cyclic">>
  ELSE <<edge[nd].signal>> \o C15_Walk(edge[nd].nextSignal, fuel - 1)

\* the sources list of t is finite and holds the signals the last
\* evaluation of t read, once each
C15_Intact(t) ==
  LET w == C15_Walk(_sources[t], Fuel)
      held == {w[i] : i \in DOMAIN w}
  IN  /\ "cyclic" \notin held
      /\ Cardinality(held) = Len(w)
      /\ held = Direct(hist.snap, t)

\* C15: after every completed evaluation the sources list of a computed or
\* effect, followed through nextSignal, is finite and holds exactly the
\* signals that evaluation read, once each.
C15_SourcesIntegrity ==
  ~hung => \A t \in Computeds \cup (created \ disposed) : C15_Intact(t)

\* the same for the evaluations that read a signal they had read before
\* first, or only signals they had not read before
C15_IntegrityWithoutPeek ==
  (~hung /\ prog # 4) => \A t \in Computeds \cup (created \ disposed) : C15_Intact(t)

\* C16: between operations no evaluation is in progress, so no computed and
\* no effect has RUNNING set, also after an operation that threw.
C16_NoRunningAtRest == ~hung => \A t \in Targets : RUNNING \notin _flags[t]

\* no computed is left RUNNING, and an effect only by a step that threw
C16_ComputedsNotRunning == ~hung => \A d \in Computeds : RUNNING \notin _flags[d]
C16_RunningOnlyAfterThrow ==
  [][\A ef \in Effects :
       (~hung' /\ RUNNING \notin _flags[ef] /\ RUNNING \in _flags'[ef])
         => hist'.threw # <<>> /\ hist'.exc # NoExc]_vars

\* the Node records of the sources list from nd on
RECURSIVE C17_Held(_, _)
C17_Held(nd, fuel) ==
  IF nd = NoNode \/ fuel = 0 THEN {}
  ELSE {nd} \cup C17_Held(edge[nd].nextSignal, fuel - 1)

\* how many times nd is met in the targets list from at on
RECURSIVE C17_Linked(_, _, _)
C17_Linked(nd, at, fuel) ==
  IF at = NoNode \/ fuel = 0 THEN 0
  ELSE (IF at = nd THEN 1 ELSE 0) + C17_Linked(nd, edge[at].nextTarget, fuel - 1)

\* C17: between operations a Node held in the sources list of a target is
\* in the targets list of its signal, once, if the target is an effect or a
\* computed that has a target itself, and is not in it otherwise; a
\* computed has SHOULD_SUBSCRIBE exactly when it has a target.
C17_SubscriptionInvariant ==
  ~hung =>
    /\ \A t \in Targets : \A nd \in C17_Held(_sources[t], Fuel) :
         C17_Linked(nd, _targets[edge[nd].signal], Fuel) =
           IF t \in Effects \/ _targets[t] # NoNode THEN 1 ELSE 0
    /\ \A d \in Computeds :
         SHOULD_SUBSCRIBE \in _flags[d] <=> _targets[d] # NoNode

\* computed y has lost its last target, effect e, and holds a Node of x that
\* is not linked, while x, which effect f reads, holds a linked Node of a
C17_Witness ==
  /\ ~hung
  /\ "e" \in disposed /\ "f" \in created \ disposed
  /\ \E nd \in C17_Held(_sources["y"], Fuel) :
       edge[nd].signal = "x" /\ C17_Linked(nd, _targets["x"], Fuel) = 0
  /\ \E nd \in C17_Held(_sources["x"], Fuel) :
       edge[nd].signal = "a" /\ C17_Linked(nd, _targets["a"], Fuel) = 1

\* the step is a write of a new value outside a batch
C18_WriteOf(s) ==
  /\ hist'.op[1] = "write" /\ hist'.op[2] = s /\ hist'.op[3] # _value[s]
  /\ batchDepth = 0 /\ ~hung'

\* the step has evaluated t: called the compute function or the callback
C18_Evaluated(t) ==
  \/ t \in hist'.computes
  \/ \E k \in DOMAIN hist'.passes : \E i \in DOMAIN hist'.passes[k].called :
       hist'.passes[k].called[i] = t

C19_VersionCountsChanges == \A d \in Computeds : _version[d] = changes[d]

\* the version moves only in a step that recomputes the computed, and by one
\* more than the changes only when the computed held an error and holds one
C19_AheadOnlyAfterRethrow ==
  [][\A d \in Computeds :
       /\ _version'[d] # _version[d] => d \in hist'.computes
       /\ _version'[d] - _version[d] # changes'[d] - changes[d]
            => HAS_ERROR \in _flags[d] /\ HAS_ERROR \in _flags'[d]]_vars

\* C20: every recomputation and every effect run leaves evalContext as it
\* found it, whether it returns or throws, and outside batch() no operation
\* leaves evalContext, batchDepth, batchIteration or the queue of effects
\* set, also when it threw.
C20_ScopedState ==
  ~hung =>
    /\ hist.unscoped = {}
    /\ evalContext = NoObj
    /\ batchDepth = Cardinality({i \in DOMAIN batchStack : batchStack[i]})
    /\ batchStack = <<>> =>
         /\ batchDepth = 0
         /\ batchIteration = 0
         /\ batchedEffect = NoObj
         /\ \A ef \in Effects :
              NOTIFIED \notin _flags[ef] /\ _nextEffect[ef] = NoObj

\* an effect creation outside batch() whose drain threw has ended
C20_Witness ==
  /\ ~hung
  /\ batchStack = <<>>
  /\ hist.op[1] = "effect"
  /\ hist.threw # <<>>
  /\ hist.exc # NoExc
  /\ batchDepth = 0 /\ evalContext = NoObj

====
